---------------------------- MODULE Spec2Model ----------------------------
(***************************************************************************)
(* Model of flight/Modules/Attitude/revolution/attitude.c: the attitude    *)
(* task (AttitudeTask), the sensor acquisition (updateSensors) and the     *)
(* settings callback (settingsUpdatedCb), with the sensor drivers, the     *)
(* UAVObjects, the tick counter and the event dispatcher as environment.   *)
(*                                                                         *)
(* float values are modelled as exact rationals <<n, d>> in lowest terms   *)
(* with d > 0.                                                             *)
(***************************************************************************)
EXTENDS Integers, Sequences, FiniteSets, TLC

----------------------------------------------------------------------------
(* Bounds of the model *)

\* task-loop cycles explored
MaxCycles == 2
\* FIFO entries the accelerometer / gyroscope delivers to one drain
MaxSamples == 1
\* AttitudeSettings object writes by the environment
MaxSettingsUpdates == 1

----------------------------------------------------------------------------
(* Rational arithmetic *)

RECURSIVE GCD(_, _)
GCD(a, b) == IF b = 0 THEN a ELSE GCD(b, a % b)

Abs(x) == IF x < 0 THEN -x ELSE x

RNorm(n, d) ==
    LET g == GCD(Abs(n), Abs(d))
        s == IF d < 0 THEN -1 ELSE 1
    IN  << (s * n) \div g, (s * d) \div g >>

RInt(i) == << i, 1 >>
RNeg(a) == << -a[1], a[2] >>
RAdd(a, b) ==
    LET g == GCD(a[2], b[2])
        l == (a[2] \div g) * b[2]
    IN  RNorm(a[1] * (l \div a[2]) + b[1] * (l \div b[2]), l)
RSub(a, b) == RAdd(a, RNeg(b))
RMul(a, b) ==
    LET g1 == GCD(Abs(a[1]), b[2])
        g2 == GCD(Abs(b[1]), a[2])
    IN  RNorm((a[1] \div g1) * (b[1] \div g2), (a[2] \div g2) * (b[2] \div g1))
\* b # 0 at every use: the divisors are sample counts >= 1 and constants
RDiv(a, b) == RMul(a, IF b[1] < 0 THEN << -b[2], -b[1] >> ELSE << b[2], b[1] >>)
\* conversion of a float to an integer type: truncation toward zero
RTrunc(a) == IF a[1] >= 0 THEN a[1] \div a[2] ELSE -((-a[1]) \div a[2])

RZero == RInt(0)
Vec3Zero == << RZero, RZero, RZero >>

----------------------------------------------------------------------------
(* float values that are not numbers: a pair with denominator 0 *)

NaN == << 0, 0 >>
PosInf == << 1, 0 >>
NegInf == << -1, 0 >>

IsNaN(a) == a = NaN
IsInf(a) == a = PosInf \/ a = NegInf
Sign(a) == IF a[1] > 0 THEN 1 ELSE IF a[1] < 0 THEN -1 ELSE 0

FAdd(a, b) ==
    IF IsNaN(a) \/ IsNaN(b) THEN NaN
    ELSE IF IsInf(a) /\ IsInf(b) THEN (IF a = b THEN a ELSE NaN)
    ELSE IF IsInf(a) THEN a
    ELSE IF IsInf(b) THEN b
    ELSE RAdd(a, b)

FMul(a, b) ==
    IF IsNaN(a) \/ IsNaN(b) THEN NaN
    ELSE IF IsInf(a) \/ IsInf(b)
    THEN (IF Sign(a) * Sign(b) = 0 THEN NaN ELSE << Sign(a) * Sign(b), 0 >>)
    ELSE RMul(a, b)

FDiv(a, b) ==
    IF IsNaN(a) \/ IsNaN(b) THEN NaN
    ELSE IF IsInf(a) /\ IsInf(b) THEN NaN
    ELSE IF IsInf(a) THEN << Sign(a) * (IF b[1] < 0 THEN -1 ELSE 1), 0 >>
    ELSE IF IsInf(b) THEN RZero
    ELSE IF b[1] = 0 THEN (IF a[1] = 0 THEN NaN ELSE << Sign(a), 0 >>)
    ELSE RDiv(a, b)

FAbs(a) == << Abs(a[1]), a[2] >>

\* a < b of two floats: false when either is not a number
FLess(a, b) ==
    IF IsNaN(a) \/ IsNaN(b) THEN FALSE
    ELSE IF IsInf(a) \/ IsInf(b)
    THEN a # b /\ (a = NegInf \/ b = PosInf)
    ELSE a[1] * b[2] < b[1] * a[2]

\* a != b of two floats: true when either is not a number
FNotEqual(a, b) == IsNaN(a) \/ IsNaN(b) \/ a # b

\* the largest r in lo..hi with r * r <= n
RECURSIVE ISqrtIn(_, _, _)
ISqrtIn(n, lo, hi) ==
    IF lo >= hi THEN lo
    ELSE LET mid == (lo + hi + 1) \div 2
         IN  IF mid * mid <= n THEN ISqrtIn(n, mid, hi) ELSE ISqrtIn(n, lo, mid - 1)

ISqrt(n) == ISqrtIn(n, 0, IF n < 46340 THEN n ELSE 46340)

\* sqrt: exact on the quotients of two squares, which the values explored are
FSqrt(a) ==
    IF IsNaN(a) \/ a[1] < 0 THEN NaN
    ELSE IF a = PosInf THEN PosInf
    ELSE RNorm(ISqrt(a[1]), ISqrt(a[2]))

----------------------------------------------------------------------------
(* Program constants *)

\* window of the tick count in which the startup gains are forced
StartupWindowOpen == 1000
StartupWindowClose == 7000

\* the gains forced in the startup window and while arming
HighKp == RInt(1)
HighKi == << 9, 10 >>
HighYawBiasRate == << 23, 100 >>

\* the divisor of the configured GyroBias
GyroBiasDivisor == 100

----------------------------------------------------------------------------
(* Environment: values the drivers, the tick counter and the other modules *)
(* can deliver                                                             *)

\* representative values of xTaskGetTickCount() around the window's edges
TickValues == { StartupWindowOpen, StartupWindowOpen + 1,
                StartupWindowClose - 1, StartupWindowClose }

ArmedValues == { "DISARMED", "ARMING" }

\* configurations the AttitudeSettings object can hold
SettingsValues ==
    { [ AccelKp |-> << 1, 2 >>, AccelKi |-> << 1, 4 >>, YawBiasRate |-> RZero,
        ZeroDuringArming |-> FALSE, BiasCorrectGyro |-> TRUE,
        GyroBias |-> << 0, 0, 0 >>, BoardRotation |-> << 0, 0, 0 >> ],
      [ AccelKp |-> << 1, 4 >>, AccelKi |-> << 1, 2 >>, YawBiasRate |-> << 1, 2 >>,
        ZeroDuringArming |-> TRUE, BiasCorrectGyro |-> FALSE,
        GyroBias |-> << 100, -100, 50 >>, BoardRotation |-> << 0, 0, 180 >> ] }

\* FIFO entries of the BMA180 and of the MPU6050
AccelEntries == { [ x |-> 2, y |-> -4, z |-> 6, temperature |-> 4 ],
                  [ x |-> 4, y |-> 0, z |-> -2, temperature |-> 4 ] }
GyroEntries  == { [ gyro_x |-> 2, gyro_y |-> -2, gyro_z |-> 4, temperature |-> -12850 ],
                  [ gyro_x |-> 0, gyro_y |-> 4, gyro_z |-> 4, temperature |-> -12850 ] }
MagValues    == { << 1, -2, 3 >>, << -3, 0, 2 >> }

\* PIOS_BMA180_GetScale() and PIOS_MPU6050_GetScale()
AccelScale == << 1, 2 >>
GyroScale  == RInt(1)

\* results of the BMP085 driver
PressureValues == { 100000, 101325 }
TemperatureValues == { 250 }

\* The environment of the task: the values it can deliver and how much of it is
\* explored. ControlEnv varies the settings, their delivery, the tick count, the
\* flight status, the magnetometer and the barometer, and keeps the sensor data
\* to one value each.
ControlEnv ==
    [ Settings |-> SettingsValues,
      Ticks |-> TickValues,
      Armed |-> ArmedValues,
      AccelEntries |-> { [ x |-> 2, y |-> -4, z |-> 6, temperature |-> 4 ] },
      GyroEntries |-> { [ gyro_x |-> 2, gyro_y |-> -2, gyro_z |-> 4, temperature |-> -12850 ] },
      MagNew |-> BOOLEAN,
      MagValues |-> { << 1, -2, 3 >> },
      BaroDone |-> BOOLEAN,
      PressureValues |-> { 101325 },
      TemperatureValues |-> TemperatureValues,
      MaxCycles |-> MaxCycles,
      MaxSamples |-> MaxSamples,
      MaxSettingsUpdates |-> MaxSettingsUpdates ]

\* DataEnv varies the accelerometer and gyroscope data: two values of each FIFO
\* entry and drains of more than one entry; the tick count is past the startup
\* window and the vehicle is disarmed
DataEnv ==
    [ Settings |-> SettingsValues,
      Ticks |-> { StartupWindowClose },
      Armed |-> { "DISARMED" },
      AccelEntries |-> AccelEntries,
      GyroEntries |-> GyroEntries,
      MagNew |-> { TRUE },
      MagValues |-> { << 1, -2, 3 >> },
      BaroDone |-> { TRUE },
      PressureValues |-> { 101325 },
      TemperatureValues |-> TemperatureValues,
      MaxCycles |-> MaxCycles,
      MaxSamples |-> MaxSamples + 1,
      MaxSettingsUpdates |-> MaxSettingsUpdates ]

\* AlarmEnv is ControlEnv with a tick count past the startup window and a disarmed
\* vehicle: settings updates, FIFO timing, magnetometer and barometer vary
AlarmEnv ==
    [ ControlEnv EXCEPT !.Ticks = { StartupWindowClose },
                        !.Armed = { "DISARMED" } ]

\* PeripheralEnv varies the magnetometer and the barometer: either may or may not
\* have new data in a cycle, with two values of the magnetometer reading and of
\* the pressure; the tick count is past the startup window and the vehicle is
\* disarmed
PeripheralEnv ==
    [ ControlEnv EXCEPT !.MaxCycles = MaxCycles + 1,
                        !.Ticks = { StartupWindowClose },
                        !.Armed = { "DISARMED" },
                        !.MagValues = MagValues,
                        !.PressureValues = PressureValues ]

\* GainEnv is ControlEnv with a magnetometer that has new data in every cycle and
\* a barometer that has completed its conversion at every read: neither is read
\* by the gain schedule, the settings callback or the alarm
GainEnv == [ ControlEnv EXCEPT !.MagNew = { TRUE }, !.BaroDone = { TRUE } ]

----------------------------------------------------------------------------
(* State *)

VARIABLES
    \* AttitudeTask
    pc,                 \* position of the task
    init,               \* uint8_t init: steady-state gains are loaded
    flightStatus,       \* flightStatus.Armed as read by FlightStatusGet
    attitudeRaw,        \* AttitudeRawData attitudeRaw of the task loop
    retval,             \* value returned by the last updateSensors call
    tick,               \* last value returned by xTaskGetTickCount
    \* file-scope variables of attitude.c
    accelKp, accelKi, yawBiasRate,
    zero_during_arming, bias_correct_gyro,
    gyro_correct_int,
    rotate, R,          \* int8_t rotate, float R[3][3]
    accel, gyro,        \* last FIFO entry read from each sensor
    accel_accum, gyro_accum,
    accel_samples, gyro_samples,
    count,              \* int32_t count of updateSensors
    baro_conversions,   \* static uint32_t baro_conversions
    \* updateAttitude
    filterPc,           \* position inside updateAttitude, "idle" outside of it
    q,                  \* float q[4]
    qmag,               \* float qmag of the last renormalisation
    AttitudeActualObj,  \* AttitudeActual
    \* UAVObjects and alarms
    alarm,              \* SYSTEMALARMS_ALARM_ATTITUDE
    settings,           \* AttitudeSettings
    AttitudeRawObj,     \* AttitudeRaw
    BaroAltitudeObj,    \* BaroAltitude
    \* environment
    cbPending,          \* AttitudeSettings events queued for settingsUpdatedCb
    accelPending,       \* entries waiting in the BMA180 FIFO
    gyroPending,        \* entries waiting in the MPU6050 FIFO
    baroConv,           \* the BMP085 conversion in flight
    baroData,           \* pressure and temperature held by the BMP085 driver
    \* history of the run, read by the properties only
    cycles,             \* cycles completed
    updates,            \* AttitudeSettings writes so far
    hist                \* what the current cycle has done so far

taskVars == << pc, init, flightStatus, attitudeRaw, retval, tick >>
fileVars == << accelKp, accelKi, yawBiasRate, zero_during_arming, bias_correct_gyro,
               gyro_correct_int, rotate, R, accel, gyro, accel_accum, gyro_accum,
               accel_samples, gyro_samples, count, baro_conversions >>
objVars  == << alarm, settings, AttitudeRawObj, BaroAltitudeObj >>
envVars  == << cbPending, accelPending, gyroPending, baroConv, baroData >>
histVars == << cycles, updates, hist >>
filterVars == << filterPc, q, qmag, AttitudeActualObj >>
vars == << taskVars, fileVars, objVars, envVars, histVars, filterVars >>

\* the value of a zero-initialised AttitudeRawData: the AttitudeRaw object after
\* AttitudeRawInitialize and the file-scope variable raw, which is never assigned
ZeroRaw == [ accels |-> Vec3Zero, gyros |-> Vec3Zero,
             temperature |-> [ GYRO |-> RZero, ACCEL |-> RZero ],
             magnetometers |-> << 0, 0, 0 >> ]
raw == ZeroRaw

\* R after the loops of AttitudeInitialize
ZeroMatrix == << << 0, 0, 0 >>, << 0, 0, 0 >>, << 0, 0, 0 >> >>

ZeroBaro == [ Altitude |-> [ ofPressure |-> 0 ], Pressure |-> RZero, Temperature |-> RZero ]

\* the history record between two cycles
HistStart ==
    [ regime |-> "none",        \* gain regime of this cycle
      prevRegime |-> "none",    \* gain regime of the previous cycle
      loaded |-> FALSE,         \* this cycle read the gains from AttitudeSettings
      t1 |-> 0,                 \* first read of the tick count by this cycle
      snap |-> << >>,           \* configuration-derived state after the gain schedule
      cbInCycle |-> FALSE,      \* settingsUpdatedCb ran since the gain schedule
      accelEmpty |-> FALSE,     \* a BMA180 read found the FIFO empty before any entry
      gyroEmpty |-> FALSE,      \* the same for the MPU6050
      accelSum |-> << 0, 0, 0 >>, \* sum of the entries the BMA180 FIFO delivered
      accelN |-> 0,             \* their number
      gyroSum |-> << 0, 0, 0 >>,\* the same for the MPU6050
      gyroN |-> 0,
      yawBiasRateUsed |-> RZero,\* yawBiasRate as read by the yaw bias update
      biasAdded |-> Vec3Zero,   \* what the bias block added to the gyro reading
      biasBefore |-> Vec3Zero,  \* gyro_correct_int before the yaw bias update
      biasAfter |-> Vec3Zero,   \* and after it
      rawSets |-> 0,            \* AttitudeRawSet calls
      rawSetOfSample |-> 0,     \* those that wrote the cycle's attitudeRaw
      attitudeCalls |-> 0,      \* updateAttitude calls
      magRead |-> "none",       \* the magnetometer had "new" data or not ("stale")
      magValues |-> << 0, 0, 0 >>, \* the reading PIOS_HMC5883_ReadMag delivered
      prevMag |-> << 0, 0, 0 >>,\* magnetometers of AttitudeRaw when the cycle began
      baroRead |-> "none",      \* the BMP085 read found the conversion "completed" or "pending"
      baroCompletions |-> 0,    \* reads that found it completed, since task start
      baroSets |-> 0,           \* BaroAltitudeSet calls
      baroCompleted |-> "none", \* conversion the ReadADC of this cycle found completed
      baroStarted |-> << >> ]   \* conversions started since task start, in order

\* static float q[4] = {1,0,0,0}, and the quaternion AttitudeInitialize publishes
QIdentity == << RInt(1), RZero, RZero, RZero >>

\* the task, the file-scope variables of the sensor path, the objects and the
\* environment after AttitudeInitialize
TaskInit(e) ==
    /\ pc = "start"
    /\ init = 0
    /\ flightStatus = "DISARMED"
    /\ attitudeRaw = ZeroRaw
    /\ retval = 0
    /\ tick = 0
    /\ accelKp = RZero /\ accelKi = RZero /\ yawBiasRate = RZero
    /\ zero_during_arming = FALSE
    /\ bias_correct_gyro = TRUE
    /\ gyro_correct_int = Vec3Zero
    /\ rotate = 0
    /\ R = ZeroMatrix
    /\ accel = [ x |-> 0, y |-> 0, z |-> 0, temperature |-> 0 ]
    /\ gyro = [ gyro_x |-> 0, gyro_y |-> 0, gyro_z |-> 0, temperature |-> 0 ]
    /\ accel_accum = << 0, 0, 0 >> /\ gyro_accum = << 0, 0, 0 >>
    /\ accel_samples = 0 /\ gyro_samples = 0
    /\ count = 0
    /\ baro_conversions = 0
    /\ alarm = "UNINITIALISED"
    /\ settings \in e.Settings
    /\ AttitudeRawObj = ZeroRaw
    /\ BaroAltitudeObj = ZeroBaro
    /\ cbPending = 0
    /\ accelPending = 0 /\ gyroPending = 0
    /\ baroConv = "none"
    /\ baroData = [ Pressure |-> 0, Temperature |-> 0 ]
    /\ cycles = 0 /\ updates = 0
    /\ hist = HistStart

Init(e) ==
    /\ TaskInit(e)
    /\ filterPc = "idle"
    /\ q = QIdentity
    /\ qmag = RInt(1)
    /\ AttitudeActualObj = [ q |-> QIdentity ]

----------------------------------------------------------------------------
(* settingsUpdatedCb *)

\* SettingsDerived without the division of GyroBias
SettingsDerived_BiasNotScaled(s) ==
    [ accelKp |-> s.AccelKp, accelKi |-> s.AccelKi, yawBiasRate |-> s.YawBiasRate,
      zero_during_arming |-> s.ZeroDuringArming,
      bias_correct_gyro |-> s.BiasCorrectGyro,
      gyro_correct_int |-> [ i \in 1..3 |-> RInt(s.GyroBias[i]) ] ]

\* the file-scope state settingsUpdatedCb derives from the AttitudeSettings object
SettingsDerived(s) ==
    [ accelKp |-> s.AccelKp, accelKi |-> s.AccelKi, yawBiasRate |-> s.YawBiasRate,
      zero_during_arming |-> s.ZeroDuringArming,
      bias_correct_gyro |-> s.BiasCorrectGyro,
      gyro_correct_int |->
          [ i \in 1..3 |-> RDiv(RInt(s.GyroBias[i]), RInt(GyroBiasDivisor)) ] ]

\* cosine and sine of half an angle given in degrees. The board rotations explored
\* are multiples of 180 degrees, where both are exact: 0, 1 or -1.
CosHalf(deg) ==
    LET k == (deg \div 180) % 4
    IN  IF k = 0 THEN 1 ELSE IF k = 2 THEN -1 ELSE 0

SinHalf(deg) ==
    LET k == (deg \div 180) % 4
    IN  IF k = 1 THEN 1 ELSE IF k = 3 THEN -1 ELSE 0

\* roll, pitch, yaw in degrees to a quaternion with q0 >= 0
RPY2Quaternion(rpy) ==
    LET cphi == CosHalf(rpy[1])    sphi == SinHalf(rpy[1])
        ctheta == CosHalf(rpy[2])  stheta == SinHalf(rpy[2])
        cpsi == CosHalf(rpy[3])    spsi == SinHalf(rpy[3])
        u == << cphi * ctheta * cpsi + sphi * stheta * spsi,
                sphi * ctheta * cpsi - cphi * stheta * spsi,
                cphi * stheta * cpsi + sphi * ctheta * spsi,
                cphi * ctheta * spsi - sphi * stheta * cpsi >>
    IN  IF u[1] < 0 THEN << -u[1], -u[2], -u[3], -u[4] >> ELSE u

\* quaternion to rotation matrix
Quaternion2R(u) ==
    LET q0s == u[1] * u[1]  q1s == u[2] * u[2]
        q2s == u[3] * u[3]  q3s == u[4] * u[4]
    IN  << << q0s + q1s - q2s - q3s,
              2 * (u[2] * u[3] + u[1] * u[4]),
              2 * (u[2] * u[4] - u[1] * u[3]) >>,
           << 2 * (u[2] * u[3] - u[1] * u[4]),
              q0s - q1s + q2s - q3s,
              2 * (u[3] * u[4] + u[1] * u[2]) >>,
           << 2 * (u[2] * u[4] + u[1] * u[3]),
              2 * (u[3] * u[4] - u[1] * u[2]),
              q0s - q1s - q2s + q3s >> >>

\* RotationDerived testing the roll component only
RotationDerived_RollOnly(s) ==
    IF s.BoardRotation[1] = 0
    THEN [ rotate |-> 0, R |-> Quaternion2R(<< 1, 0, 0, 0 >>) ]
    ELSE [ rotate |-> 1, R |-> Quaternion2R(RPY2Quaternion(s.BoardRotation)) ]

\* rotate and R as the last block of settingsUpdatedCb leaves them
RotationDerived(s) ==
    IF s.BoardRotation[1] = 0 /\ s.BoardRotation[2] = 0 /\ s.BoardRotation[3] = 0
    THEN [ rotate |-> 0, R |-> Quaternion2R(<< 1, 0, 0, 0 >>) ]
    ELSE [ rotate |-> 1, R |-> Quaternion2R(RPY2Quaternion(s.BoardRotation)) ]

\* the assignments of settingsUpdatedCb, from the object as it is now
ApplySettings ==
    LET d == SettingsDerived(settings)
    IN  /\ rotate' = RotationDerived(settings).rotate
        /\ R' = RotationDerived(settings).R
        /\ accelKp' = d.accelKp
        /\ accelKi' = d.accelKi
        /\ yawBiasRate' = d.yawBiasRate
        /\ zero_during_arming' = d.zero_during_arming
        /\ bias_correct_gyro' = d.bias_correct_gyro
        /\ gyro_correct_int' = d.gyro_correct_int

\* positions of the task between the gain schedule and the end of the cycle
InCycle == pc \notin { "start", "loop" }

\* positions inside updateSensors
InUpdateSensors == pc \in { "accel_wait", "accel_drain", "gyro_wait", "gyro_drain",
                            "yaw_bias", "baro" }

\* the event dispatcher runs the callback for a queued AttitudeSettings event;
\* nothing in attitude.c keeps it from running while the task is inside a cycle
settingsUpdatedCb ==
    /\ UNCHANGED filterVars
    /\ cbPending > 0
    /\ cbPending' = cbPending - 1
    /\ ApplySettings
    /\ hist' = [ hist EXCEPT !.cbInCycle = @ \/ InCycle ]
    /\ UNCHANGED << taskVars, accel, gyro, accel_accum, gyro_accum, accel_samples,
                    gyro_samples, count, baro_conversions, objVars,
                    accelPending, gyroPending, baroConv, baroData, cycles, updates >>

\* another module or the ground station writes the AttitudeSettings object
AttitudeSettingsSet(e) ==
    /\ UNCHANGED filterVars
    /\ updates < e.MaxSettingsUpdates
    /\ \E s \in e.Settings :
          /\ s # settings
          /\ settings' = s
    /\ cbPending' = cbPending + 1
    /\ updates' = updates + 1
    /\ UNCHANGED << taskVars, fileVars, alarm, AttitudeRawObj, BaroAltitudeObj,
                    accelPending, gyroPending, baroConv, baroData, cycles, hist >>

----------------------------------------------------------------------------
(* AttitudeTask: start of the task *)

TaskStart ==
    /\ UNCHANGED filterVars
    /\ pc = "start"
    /\ alarm' = "OK"                          \* AlarmsClear
    /\ ApplySettings                          \* settingsUpdatedCb called directly
    /\ baroConv' = "TemperatureConv"          \* PIOS_BMP085_StartADC(TemperatureConv)
    /\ hist' = [ hist EXCEPT !.baroStarted = Append(@, "TemperatureConv") ]
    /\ pc' = "loop"
    /\ UNCHANGED << init, flightStatus, attitudeRaw, retval, tick,
                    accel, gyro, accel_accum, gyro_accum, accel_samples, gyro_samples,
                    count, baro_conversions, settings, AttitudeRawObj, BaroAltitudeObj,
                    cbPending, accelPending, gyroPending, baroData, cycles, updates >>

----------------------------------------------------------------------------
(* AttitudeTask: the gain schedule at the top of the loop *)

HighGains == [ accelKp |-> HighKp, accelKi |-> HighKi, yawBiasRate |-> HighYawBiasRate ]

\* the condition of the first if: t1 and t2 are its two reads of the tick count
StartupWindow(t1, t2) == t1 < StartupWindowClose /\ t2 > StartupWindowOpen

\* the condition of the first else if
ArmingZero(armed) == zero_during_arming /\ armed = "ARMING"

\* ScheduleGains without its arming branch
ScheduleGains_NoArmingZero(t1, t2, armed) ==
    IF StartupWindow(t1, t2)
    THEN HighGains @@ [ init |-> 0, loaded |-> FALSE ]
    ELSE IF init = 0
    THEN [ accelKp |-> settings.AccelKp, accelKi |-> settings.AccelKi,
           yawBiasRate |-> settings.YawBiasRate, init |-> 1, loaded |-> TRUE ]
    ELSE [ accelKp |-> accelKp, accelKi |-> accelKi, yawBiasRate |-> yawBiasRate,
           init |-> init, loaded |-> FALSE ]

\* ScheduleGains whose steady-state branch does not set init
ScheduleGains_InitNotSet(t1, t2, armed) ==
    IF StartupWindow(t1, t2)
    THEN HighGains @@ [ init |-> 0, loaded |-> FALSE ]
    ELSE IF ArmingZero(armed)
    THEN HighGains @@ [ init |-> 0, loaded |-> FALSE ]
    ELSE IF init = 0
    THEN [ accelKp |-> settings.AccelKp, accelKi |-> settings.AccelKi,
           yawBiasRate |-> settings.YawBiasRate, init |-> 0, loaded |-> TRUE ]
    ELSE [ accelKp |-> accelKp, accelKi |-> accelKi, yawBiasRate |-> yawBiasRate,
           init |-> init, loaded |-> FALSE ]

\* ScheduleGains whose steady-state branch sets init without reading the gains
ScheduleGains_NoReload(t1, t2, armed) ==
    IF StartupWindow(t1, t2)
    THEN HighGains @@ [ init |-> 0, loaded |-> FALSE ]
    ELSE IF ArmingZero(armed)
    THEN HighGains @@ [ init |-> 0, loaded |-> FALSE ]
    ELSE [ accelKp |-> accelKp, accelKi |-> accelKi, yawBiasRate |-> yawBiasRate,
           init |-> 1, loaded |-> FALSE ]

\* the if / else if / else if of the loop: the gains and init it leaves, and
\* whether it read the gains from the AttitudeSettings object
ScheduleGains(t1, t2, armed) ==
    IF StartupWindow(t1, t2)
    THEN HighGains @@ [ init |-> 0, loaded |-> FALSE ]
    ELSE IF ArmingZero(armed)
    THEN HighGains @@ [ init |-> 0, loaded |-> FALSE ]
    ELSE IF init = 0
    THEN [ accelKp |-> settings.AccelKp, accelKi |-> settings.AccelKi,
           yawBiasRate |-> settings.YawBiasRate, init |-> 1, loaded |-> TRUE ]
    ELSE [ accelKp |-> accelKp, accelKi |-> accelKi, yawBiasRate |-> yawBiasRate,
           init |-> init, loaded |-> FALSE ]

\* FlightStatusGet, the gain schedule, AttitudeRawGet(&attitudeRaw), and the
\* entry of updateSensors up to its first FIFO read
GainSchedule(e) ==
    /\ UNCHANGED filterVars
    /\ pc = "loop"
    /\ cycles < e.MaxCycles
    /\ \E armed \in e.Armed, t1 \in e.Ticks, t2 \in e.Ticks :
          /\ tick <= t1
          /\ t2 \in { t1, t1 + 1 }     \* at most one tick between the two reads
          /\ LET g == ScheduleGains(t1, t2, armed)
             IN  /\ flightStatus' = armed
                 /\ tick' = t2
                 /\ accelKp' = g.accelKp
                 /\ accelKi' = g.accelKi
                 /\ yawBiasRate' = g.yawBiasRate
                 /\ init' = g.init
                 /\ hist' = [ hist EXCEPT
                        !.regime = IF StartupWindow(t1, t2) THEN "startup"
                                   ELSE IF ArmingZero(armed) THEN "arming"
                                   ELSE "steady",
                        !.loaded = g.loaded,
                        !.t1 = t1,
                        !.snap = [ accelKp |-> g.accelKp, accelKi |-> g.accelKi,
                                   yawBiasRate |-> g.yawBiasRate,
                                   zero_during_arming |-> zero_during_arming,
                                   bias_correct_gyro |-> bias_correct_gyro,
                                   gyro_correct_int |-> gyro_correct_int ] ]
    /\ attitudeRaw' = AttitudeRawObj
    /\ accel_accum' = << 0, 0, 0 >>
    /\ gyro_accum' = << 0, 0, 0 >>
    /\ accel_samples' = 0
    /\ gyro_samples' = 0
    /\ count' = 0
    /\ pc' = "accel_wait"
    /\ UNCHANGED << rotate, R, retval, zero_during_arming, bias_correct_gyro, gyro_correct_int,
                    accel, gyro, baro_conversions, objVars, envVars, cycles, updates >>

----------------------------------------------------------------------------
(* updateSensors: accelerometer and gyroscope *)

\* entries the current drain has taken from a FIFO
Taken(drainPc) == IF pc = drainPc THEN count + 1 ELSE 0

\* The BMA180 puts an entry into its FIFO. The task sees the FIFO only through
\* its reads, so an entry that arrives while the task is elsewhere is taken to
\* arrive when the task has come to read.
AccelProduce(e) ==
    /\ UNCHANGED filterVars
    /\ pc \in { "accel_wait", "accel_drain" }
    /\ accelPending + Taken("accel_drain") < e.MaxSamples
    /\ accelPending' = accelPending + 1
    /\ UNCHANGED << taskVars, fileVars, objVars, cbPending, gyroPending, baroConv,
                    baroData, histVars >>

\* the MPU6050 puts an entry into its FIFO
GyroProduce(e) ==
    /\ UNCHANGED filterVars
    /\ pc \in { "gyro_wait", "gyro_drain" }
    /\ gyroPending + Taken("gyro_drain") < e.MaxSamples
    /\ gyroPending' = gyroPending + 1
    /\ UNCHANGED << taskVars, fileVars, objVars, cbPending, accelPending, baroConv,
                    baroData, histVars >>

\* the history after the BMA180 FIFO has delivered entry a to a read
AccelDelivered(a) ==
    [ hist EXCEPT !.accelSum = << @[1] + a.x, @[2] + a.y, @[3] + a.z >>,
                  !.accelN = @ + 1 ]

\* the history after the MPU6050 FIFO has delivered entry g to a read
GyroDelivered(g) ==
    [ hist EXCEPT !.gyroSum = << @[1] + g.gyro_x, @[2] + g.gyro_y, @[3] + g.gyro_z >>,
                  !.gyroN = @ + 1 ]

\* while((read_good = PIOS_BMA180_ReadFifo(&accel)) != 0);   one read
AccelWait(e) ==
    /\ UNCHANGED filterVars
    /\ pc = "accel_wait"
    /\ IF accelPending > 0
       THEN /\ \E a \in e.AccelEntries : accel' = a
            /\ accelPending' = accelPending - 1
            /\ pc' = "accel_drain"
            /\ hist' = AccelDelivered(accel')
       ELSE /\ hist' = [ hist EXCEPT !.accelEmpty = TRUE ]
            /\ UNCHANGED << accel, accelPending, pc >>
    /\ UNCHANGED << rotate, R, init, flightStatus, attitudeRaw, retval, tick, accelKp, accelKi,
                    yawBiasRate, zero_during_arming, bias_correct_gyro,
                    gyro_correct_int, gyro, accel_accum, gyro_accum, accel_samples,
                    gyro_samples, count, baro_conversions, objVars, cbPending,
                    gyroPending, baroConv, baroData, cycles, updates >>

\* AccelReading without the division by the number of samples
AccelReading_NotAveraged(accum, samples) ==
    [ i \in 1..3 |-> RMul(RInt(accum[i]), AccelScale) ]

\* scaling = PIOS_BMA180_GetScale() / accel_samples;  accels = accel_accum * scaling
AccelReading(accum, samples) ==
    LET scaling == RDiv(AccelScale, RInt(samples))
    IN  [ i \in 1..3 |-> RMul(RInt(accum[i]), scaling) ]

\* while(read_good == 0) { ... }: one iteration; when its read finds the FIFO
\* empty, the lines up to the gyroscope's first read
AccelDrain(e) ==
    /\ UNCHANGED filterVars
    /\ pc = "accel_drain"
    /\ accel_accum' = << accel_accum[1] + accel.x, accel_accum[2] + accel.y,
                         accel_accum[3] + accel.z >>
    /\ IF accelPending > 0
       THEN /\ \E a \in e.AccelEntries : accel' = a
            /\ accelPending' = accelPending - 1
            /\ count' = count + 1
            /\ pc' = "accel_drain"
            /\ hist' = AccelDelivered(accel')
            /\ UNCHANGED << accel_samples, attitudeRaw >>
       ELSE /\ accel_samples' = count + 1
            /\ attitudeRaw' = [ attitudeRaw EXCEPT
                    !.accels = AccelReading(accel_accum', accel_samples') ]
            /\ count' = 0
            /\ pc' = "gyro_wait"
            /\ UNCHANGED << accel, accelPending, hist >>
    /\ UNCHANGED << rotate, R, init, flightStatus, retval, tick, accelKp, accelKi,
                    yawBiasRate, zero_during_arming, bias_correct_gyro,
                    gyro_correct_int, gyro, gyro_accum, gyro_samples,
                    baro_conversions, objVars, cbPending,
                    gyroPending, baroConv, baroData, cycles, updates >>

\* while((read_good = PIOS_MPU6050_ReadFifo(&gyro)) != 0);   one read
GyroWait(e) ==
    /\ UNCHANGED filterVars
    /\ pc = "gyro_wait"
    /\ IF gyroPending > 0
       THEN /\ \E a \in e.GyroEntries : gyro' = a
            /\ gyroPending' = gyroPending - 1
            /\ pc' = "gyro_drain"
            /\ hist' = GyroDelivered(gyro')
       ELSE /\ hist' = [ hist EXCEPT !.gyroEmpty = TRUE ]
            /\ UNCHANGED << gyro, gyroPending, pc >>
    /\ UNCHANGED << rotate, R, init, flightStatus, attitudeRaw, retval, tick, accelKp, accelKi,
                    yawBiasRate, zero_during_arming, bias_correct_gyro,
                    gyro_correct_int, accel, accel_accum, gyro_accum, accel_samples,
                    gyro_samples, count, baro_conversions, objVars, cbPending,
                    accelPending, baroConv, baroData, cycles, updates >>

\* scaling = PIOS_MPU6050_GetScale() / gyro_samples;  the axes are swapped and negated
GyroReading(accum, samples) ==
    LET scaling == RDiv(GyroScale, RInt(samples))
    IN  << RMul(RNeg(RInt(accum[2])), scaling),
           RMul(RNeg(RInt(accum[1])), scaling),
           RMul(RNeg(RInt(accum[3])), scaling) >>

\* gyro.temperature = 35.0f + ((float) gyro.temperature + 13200) / 280, stored into
\* the int16_t field; the value of the assignment is the field after the store
GyroTemperature(t) == RTrunc(RAdd(RInt(35), RDiv(RInt(t + 13200), RInt(280))))

\* 25.0f + ((float) accel.temperature - 2) / 2
AccelTemperature(t) == RAdd(RInt(25), RDiv(RInt(t - 2), RInt(2)))

\* if(bias_correct_gyro) attitudeRaw->gyros[..] += gyro_correct_int[..]
BiasCorrected(gyros) ==
    IF bias_correct_gyro
    THEN << RAdd(gyros[1], gyro_correct_int[1]), RAdd(gyros[2], gyro_correct_int[2]),
            RAdd(gyros[3], gyro_correct_int[3]) >>
    ELSE gyros

\* while(read_good == 0) { ... }: one iteration; when its read finds the FIFO
\* empty, the lines up to the bias block's end
GyroDrain(e) ==
    /\ UNCHANGED filterVars
    /\ pc = "gyro_drain"
    /\ count' = count + 1
    /\ gyro_accum' = << gyro_accum[1] + gyro.gyro_x, gyro_accum[2] + gyro.gyro_y,
                        gyro_accum[3] + gyro.gyro_z >>
    /\ IF gyroPending > 0
       THEN /\ \E a \in e.GyroEntries : gyro' = a
            /\ gyroPending' = gyroPending - 1
            /\ pc' = "gyro_drain"
            /\ hist' = GyroDelivered(gyro')
            /\ UNCHANGED << gyro_samples, attitudeRaw >>
       ELSE /\ gyro_samples' = count'
            /\ gyro' = [ gyro EXCEPT !.temperature = GyroTemperature(@) ]
            /\ attitudeRaw' = [ attitudeRaw EXCEPT
                    !.gyros = BiasCorrected(GyroReading(gyro_accum', gyro_samples')),
                    !.temperature = [ GYRO |-> RInt(GyroTemperature(gyro.temperature)),
                                      ACCEL |-> AccelTemperature(accel.temperature) ] ]
            /\ pc' = "yaw_bias"
            /\ hist' = [ hist EXCEPT !.biasAdded =
                            IF bias_correct_gyro THEN gyro_correct_int ELSE Vec3Zero ]
            /\ UNCHANGED gyroPending
    /\ UNCHANGED << rotate, R, init, flightStatus, retval, tick, accelKp, accelKi,
                    yawBiasRate, zero_during_arming, bias_correct_gyro,
                    gyro_correct_int, accel, accel_accum, accel_samples,
                    baro_conversions, objVars, cbPending,
                    accelPending, baroConv, baroData, cycles, updates >>

----------------------------------------------------------------------------
(* updateSensors: yaw bias, magnetometer, barometer *)

\* YawBiasUpdated without the minus sign
YawBiasUpdated_SignLost(gyros) ==
    [ gyro_correct_int EXCEPT ![3] = RAdd(@, RMul(gyros[3], yawBiasRate)) ]

\* gyro_correct_int[2] += - attitudeRaw->gyros[ATTITUDERAW_GYROS_Z] * yawBiasRate
YawBiasUpdated(gyros) ==
    [ gyro_correct_int EXCEPT ![3] = RAdd(@, RMul(RNeg(gyros[3]), yawBiasRate)) ]

\* MagRead clearing the field when there is no new data
MagRead_Cleared(new, values, old) ==
    IF new THEN << -values[1], -values[2], -values[3] >> ELSE << 0, 0, 0 >>

\* the magnetometer field after the if (PIOS_HMC5883_NewDataAvailable()) block
MagRead(new, values, old) ==
    IF new THEN << -values[1], -values[2], -values[3] >> ELSE old

\* the object written by the AttitudeRawSet call inside updateSensors: the
\* file-scope variable raw, not the caller's attitudeRaw
SensorsRawSetValue(sample) == raw

\* the yaw bias update, the magnetometer block and AttitudeRawSet(&raw)
YawBias(e) ==
    /\ UNCHANGED filterVars
    /\ pc = "yaw_bias"
    /\ gyro_correct_int' = YawBiasUpdated(attitudeRaw.gyros)
    /\ \E new \in e.MagNew, values \in e.MagValues :
          /\ attitudeRaw' = [ attitudeRaw EXCEPT !.magnetometers = MagRead(new, values, @) ]
          /\ AttitudeRawObj' = SensorsRawSetValue(attitudeRaw')
          /\ hist' = [ hist EXCEPT
                 !.yawBiasRateUsed = yawBiasRate,
                 !.biasBefore = gyro_correct_int,
                 !.biasAfter = gyro_correct_int',
                 !.magRead = IF new THEN "new" ELSE "stale",
                 !.magValues = IF new THEN values ELSE @,
                 !.rawSets = @ + 1,
                 !.rawSetOfSample = @ + (IF AttitudeRawObj' = attitudeRaw' THEN 1 ELSE 0) ]
    /\ pc' = "baro"
    /\ UNCHANGED << rotate, R, init, flightStatus, retval, tick, accelKp, accelKi,
                    yawBiasRate, zero_during_arming, bias_correct_gyro, accel, gyro,
                    accel_accum, gyro_accum, accel_samples, gyro_samples, count,
                    baro_conversions, alarm, settings, BaroAltitudeObj, envVars,
                    cycles, updates >>

\* the branch on (baro_conversions++) % 2: the conversion to start, and whether
\* the BaroAltitude object is computed and set
BaroBranch(conversions) ==
    IF conversions % 2 # 0
    THEN [ start |-> "PressureConv", publish |-> FALSE ]
    ELSE [ start |-> "TemperatureConv", publish |-> TRUE ]

\* what BaroAltitudeSet writes; Altitude is
\* (1 - (pressure / BMP085_P0)^(1/5.255)) * 44330, kept as the pressure it is
\* computed from
BaroAltitudeValue(data) ==
    [ Altitude |-> [ ofPressure |-> data.Pressure ],
      Pressure |-> RDiv(RInt(data.Pressure), RInt(1000)),
      Temperature |-> RDiv(RInt(data.Temperature), RInt(10)) ]

\* PIOS_BMP085_ReadADC: done says whether the conversion in flight has completed;
\* a completed conversion leaves its result in the driver
BaroDataAfter(done, p, t) ==
    IF ~done THEN baroData
    ELSE IF baroConv = "PressureConv" THEN [ baroData EXCEPT !.Pressure = p ]
    ELSE [ baroData EXCEPT !.Temperature = t ]

\* the history after a read of the BMP085 that found the conversion completed
\* (done) or still pending
BaroReadHistory(done) ==
    [ hist EXCEPT !.baroRead = IF done THEN "completed" ELSE "pending",
                  !.baroCompletions = @ + (IF done THEN 1 ELSE 0) ]

\* the value PIOS_BMP085_ReadADC returns: 0 when the conversion has completed
ReadADCResult(done) == IF done THEN 0 ELSE -1

\* ConversionCompleted taking every read for a completed conversion
ConversionCompleted_Always(r) == TRUE

\* ConversionCompleted with the test inverted
ConversionCompleted_Inverted(r) == r # 0

\* if (retval == 0)
ConversionCompleted(r) == r = 0

\* retval = PIOS_BMP085_ReadADC() and the block on retval == 0; return 0
Baro(e) ==
    /\ UNCHANGED filterVars
    /\ pc = "baro"
    /\ \E done \in e.BaroDone, p \in e.PressureValues, t \in e.TemperatureValues :
          /\ baroData' = BaroDataAfter(done, p, t)
          /\ IF ConversionCompleted(ReadADCResult(done))
             THEN LET b == BaroBranch(baro_conversions)
                  IN  /\ baro_conversions' = baro_conversions + 1
                      /\ baroConv' = b.start
                      /\ BaroAltitudeObj' =
                            IF b.publish THEN BaroAltitudeValue(baroData')
                            ELSE BaroAltitudeObj
                      /\ hist' = [ BaroReadHistory(done) EXCEPT
                             !.baroCompleted = baroConv,
                             !.baroStarted = Append(@, b.start),
                             !.baroSets = @ + (IF b.publish THEN 1 ELSE 0) ]
             ELSE /\ hist' = BaroReadHistory(done)
                  /\ UNCHANGED << baro_conversions, baroConv, BaroAltitudeObj >>
    /\ retval' = 0
    /\ pc' = "returned"
    /\ UNCHANGED << rotate, R, init, flightStatus, attitudeRaw, tick, accelKp, accelKi,
                    yawBiasRate, zero_during_arming, bias_correct_gyro,
                    gyro_correct_int, accel, gyro, accel_accum, gyro_accum,
                    accel_samples, gyro_samples, count, alarm, settings,
                    AttitudeRawObj, cbPending, accelPending, gyroPending,
                    cycles, updates >>

----------------------------------------------------------------------------
(* AttitudeTask: after updateSensors *)

\* AlarmAfter with its branches exchanged
AlarmAfter_Exchanged(r) == IF r # 0 THEN "OK" ELSE "ERROR"

\* AlarmAfter setting the alarm in both branches
AlarmAfter_AlwaysSet(r) == "ERROR"

\* the alarm after the if (updateSensors(&attitudeRaw) != 0) ... else ...
AlarmAfter(r) == IF r # 0 THEN "ERROR" ELSE "OK"

\* updateAttitude calls made by the else branch: the call is commented out
AttitudeCallsAfter(r) == 0

AfterSensors ==
    /\ UNCHANGED filterVars
    /\ pc = "returned"
    /\ alarm' = AlarmAfter(retval)
    /\ IF retval # 0
       THEN UNCHANGED << AttitudeRawObj, hist >>
       ELSE /\ AttitudeRawObj' = attitudeRaw
            /\ hist' = [ hist EXCEPT !.rawSets = @ + 1,
                                     !.rawSetOfSample = @ + 1,
                                     !.attitudeCalls = @ + AttitudeCallsAfter(retval) ]
    /\ pc' = "delay"
    /\ UNCHANGED << init, flightStatus, attitudeRaw, retval, tick, fileVars,
                    settings, BaroAltitudeObj, envVars, cycles, updates >>

\* vTaskDelay(1)
Delay ==
    /\ UNCHANGED filterVars
    /\ pc = "delay"
    /\ pc' = "loop"
    /\ cycles' = cycles + 1
    /\ hist' = [ HistStart EXCEPT !.prevRegime = hist.regime,
                                  !.prevMag = AttitudeRawObj.magnetometers,
                                  !.baroCompletions = hist.baroCompletions,
                                  !.baroStarted = hist.baroStarted ]
    \* flightStatus and attitudeRaw are locals of the loop body
    /\ flightStatus' = "DISARMED"
    /\ attitudeRaw' = ZeroRaw
    /\ UNCHANGED << init, retval, tick, fileVars, objVars, envVars, updates >>

----------------------------------------------------------------------------
(* updateAttitude: renormalisation and publication *)

\* the constant of the test fabs(qmag) < 1e-3
Epsilon == << 1, 1000 >>

\* Renormalized without the test for not-a-number
Renormalized_NoNaNTest(u) ==
    LET mag == FSqrt(FAdd(FAdd(FAdd(FMul(u[1], u[1]), FMul(u[2], u[2])),
                               FMul(u[3], u[3])), FMul(u[4], u[4])))
        divided == [ i \in 1..4 |-> FDiv(u[i], mag) ]
    IN  [ qmag |-> mag,
          q |-> IF FLess(FAbs(mag), Epsilon) THEN QIdentity ELSE divided ]

\* qmag, the division by it and the reinitialisation of a short or
\* not-a-number quaternion
Renormalized(u) ==
    LET mag == FSqrt(FAdd(FAdd(FAdd(FMul(u[1], u[1]), FMul(u[2], u[2])),
                               FMul(u[3], u[3])), FMul(u[4], u[4])))
        divided == [ i \in 1..4 |-> FDiv(u[i], mag) ]
    IN  [ qmag |-> mag,
          q |-> IF FLess(FAbs(mag), Epsilon) \/ FNotEqual(mag, mag)
                THEN QIdentity ELSE divided ]

\* updateAttitude from its renormalisation to AttitudeActualSet
Renormalize ==
    /\ filterPc = "integrated"
    /\ qmag' = Renormalized(q).qmag
    /\ q' = Renormalized(q).q
    /\ AttitudeActualObj' = [ AttitudeActualObj EXCEPT !.q = q' ]
    /\ filterPc' = "published"
    /\ UNCHANGED << taskVars, fileVars, objVars, envVars, histVars >>

\* directions of a quaternion after the time step and the q[0] < 0 negation
QDirections ==
    { << RInt(1), RZero, RZero, RZero >>,
      << RZero, RInt(1), RZero, RZero >>,
      << << 3, 5 >>, << -4, 5 >>, RZero, RZero >>,
      << RZero, RZero, << 3, 5 >>, << 4, 5 >> >>,
      << << 4, 5 >>, RZero, RZero, << -3, 5 >> >>,
      << RZero, << 3, 5 >>, RZero, << 4, 5 >> >> }

\* norms of a quaternion after the time step
QNorms == { RZero, << 1, 2000 >>, << 1, 500 >>, << 1, 2 >>, RInt(1), RInt(2) }

\* quaternions after the time step: finite ones, and ones a component of which
\* is not a number or infinite
QIntegrated ==
    { [ i \in 1..4 |-> FMul(n, u[i]) ] : u \in QDirections, n \in QNorms }
    \cup { [ u EXCEPT ![i] = x ] : u \in QDirections, i \in 1..4, x \in { NaN, PosInf } }

\* updateAttitude about to renormalise
FilterInit ==
    /\ TaskInit(ControlEnv)
    /\ filterPc = "integrated"
    /\ q \in QIntegrated
    /\ qmag = RInt(1)
    /\ AttitudeActualObj = [ q |-> QIdentity ]

----------------------------------------------------------------------------
(* Specification *)

TaskNext(e) ==
    \/ TaskStart
    \/ GainSchedule(e)
    \/ AccelWait(e)
    \/ AccelDrain(e)
    \/ GyroWait(e)
    \/ GyroDrain(e)
    \/ YawBias(e)
    \/ Baro(e)
    \/ AfterSensors
    \/ Delay

EnvNext(e) ==
    \/ AttitudeSettingsSet(e)
    \/ settingsUpdatedCb
    \/ AccelProduce(e)
    \/ GyroProduce(e)

Next(e) == TaskNext(e) \/ EnvNext(e)

Spec == Init(ControlEnv) /\ [][Next(ControlEnv)]_vars

\* the scheduler runs the task whenever it can take a step; nothing obliges the
\* sensors to deliver entries or the settings to change
LiveSpec == Spec /\ WF_vars(TaskNext(ControlEnv))

\* the task under GainEnv
GainSpec == Init(GainEnv) /\ [][Next(GainEnv)]_vars

\* the task and the sensors, with an AttitudeSettings object that is not written
\* after the start of the task
DataNext(e) == TaskNext(e) \/ AccelProduce(e) \/ GyroProduce(e)

\* the task under DataEnv
DataSpec == Init(DataEnv) /\ [][DataNext(DataEnv)]_vars

\* the task under AlarmEnv
AlarmSpec == Init(AlarmEnv) /\ [][Next(AlarmEnv)]_vars

\* the task under PeripheralEnv
PeripheralSpec == Init(PeripheralEnv) /\ [][DataNext(PeripheralEnv)]_vars

\* the renormalisation and publication of updateAttitude on every quaternion of
\* QIntegrated
FilterNext == Renormalize

FilterSpec == FilterInit /\ [][FilterNext]_vars

----------------------------------------------------------------------------
(* Properties *)

\* the cycle has passed the yaw bias update of updateSensors
AfterYawBias == pc \in { "baro", "returned", "delay" }

\* the cycle is over: the task is at its vTaskDelay
EndOfCycle == pc = "delay"

\* C1: every AttitudeRawSet of a cycle writes the sample the cycle acquired, there
\* is exactly one in a cycle whose acquisition succeeded, and it comes after
\* updateSensors has returned
C1_RawWrittenOncePerCycle ==
    /\ hist.rawSets = hist.rawSetOfSample
    /\ hist.rawSets <= 1
    /\ hist.rawSets = 1 => EndOfCycle
    /\ (EndOfCycle /\ retval = 0) => hist.rawSets = 1

\* C2: an updateSensors call one of whose first reads found the accelerometer
\* (or the gyroscope) FIFO empty returns a non-zero value
C2_EmptyFifoReportsFault ==
    (pc = "returned" /\ (hist.accelEmpty \/ hist.gyroEmpty)) => retval # 0

C4_UpdateSensorsReturns == InUpdateSensors ~> EndOfCycle

\* C5: a cycle whose acquisition succeeded has called updateAttitude exactly once
C5_FilterRunsOncePerGoodCycle ==
    (EndOfCycle /\ retval = 0) => hist.attitudeCalls = 1

InWindow(t) == StartupWindowOpen < t /\ t < StartupWindowClose

GainsInEffect ==
    [ accelKp |-> accelKp, accelKi |-> accelKi, yawBiasRate |-> yawBiasRate ]

ConfiguredGains ==
    { [ accelKp |-> s.AccelKp, accelKi |-> s.AccelKi, yawBiasRate |-> s.YawBiasRate ] :
          s \in SettingsValues }

\* a high-gain regime applies to the current cycle: a tick count it read is in the
\* window, or zero-during-arming was enabled and the flight status it read is ARMING
HighGainRegime ==
    \/ InWindow(hist.t1)
    \/ InWindow(tick)
    \/ (hist.snap.zero_during_arming /\ flightStatus = "ARMING")

C8_BaroPublishedAfterPressure ==
    hist.baroSets > 0 => hist.baroCompleted = "PressureConv"

\* C9: no two consecutively started conversions are of the same phase
C9_ConversionsAlternate ==
    \A i \in 1..(Len(hist.baroStarted) - 1) :
        hist.baroStarted[i] # hist.baroStarted[i + 1]

\* C10: the yaw bias update of a cycle reads the yawBiasRate the cycle's gain
\* schedule left, and the bias integral it leaves is the one of the cycle's start
\* with the cycle's yaw update applied
C10_OneSnapshotPerCycle ==
    (pc \in { "baro", "returned" }) =>
        /\ hist.yawBiasRateUsed = hist.snap.yawBiasRate
        /\ zero_during_arming = hist.snap.zero_during_arming
        /\ bias_correct_gyro = hist.snap.bias_correct_gyro


IdentityMatrix == << << 1, 0, 0 >>, << 0, 1, 0 >>, << 0, 0, 1 >> >>

\* C11: once the task loop runs R is not the all-zero matrix; when no settings
\* event is waiting for the callback, rotate is 0 exactly if the three configured
\* board-rotation components are zero, R is then the identity matrix, and
\* otherwise R is the matrix of the configured roll, pitch and yaw
C11_RotationFollowsSettings ==
    /\ pc # "start" => R # ZeroMatrix
    /\ (pc # "start" /\ cbPending = 0) =>
          /\ rotate = 0 <=> settings.BoardRotation = << 0, 0, 0 >>
          /\ rotate = 0 => R = IdentityMatrix
          /\ rotate # 0 =>
                /\ rotate = 1
                /\ R = Quaternion2R(RPY2Quaternion(settings.BoardRotation))

\* a cycle that runs after a board rotation of 180 degrees of yaw was configured by
\* a settings update
C11_Witness ==
    /\ InCycle /\ cbPending = 0 /\ updates = 1
    /\ settings.BoardRotation = << 0, 0, 180 >>
    /\ rotate = 1
    /\ R = << << -1, 0, 0 >>, << 0, -1, 0 >>, << 0, 0, 1 >> >>

\* C12: after an update whose renormalisation computed a norm below 1e-3 or
\* not a number, the quaternion state and the quaternion of AttitudeActual are
\* (1, 0, 0, 0)
C12_DivergenceRecovery ==
    (filterPc = "published" /\ (FLess(FAbs(qmag), Epsilon) \/ IsNaN(qmag))) =>
        /\ q = QIdentity
        /\ AttitudeActualObj.q = QIdentity

\* an update whose norm was not a number has published the identity quaternion
C12_Witness ==
    /\ filterPc = "published" /\ IsNaN(qmag)
    /\ q = QIdentity /\ AttitudeActualObj.q = QIdentity

\* the accelerometer drain of the cycle has finished
AfterAccelDrain ==
    pc \in { "gyro_wait", "gyro_drain", "yaw_bias", "baro", "returned", "delay" }

\* the gyroscope drain of the cycle has finished
AfterGyroDrain == pc \in { "yaw_bias", "baro", "returned", "delay" }

\* sum / n * scale
Averaged(sum, n, scale) == RMul(RDiv(RInt(sum), RInt(n)), scale)

\* the bias integral component added to a gyro reading when bias_correct_gyro is set
BiasAdded(i) == IF bias_correct_gyro THEN gyro_correct_int[i] ELSE RZero

\* C13: once a drain of the cycle has finished, the sample count is the number N
\* of entries the FIFO delivered in this cycle, N >= 1, the accumulator is their
\* sum, and the reading is sum / N * scale per axis; for the gyroscope the reading
\* is that average with the axes exchanged and negated, plus the bias integral when
\* bias_correct_gyro is set
C13_SensorAveraging ==
    /\ AfterAccelDrain =>
          /\ hist.accelN >= 1
          /\ accel_samples = hist.accelN
          /\ accel_accum = hist.accelSum
          /\ \A i \in 1..3 :
                attitudeRaw.accels[i] = Averaged(hist.accelSum[i], hist.accelN, AccelScale)
    /\ AfterGyroDrain =>
          /\ hist.gyroN >= 1
          /\ gyro_samples = hist.gyroN
          /\ gyro_accum = hist.gyroSum
          /\ attitudeRaw.gyros[1] =
                RAdd(RNeg(Averaged(hist.gyroSum[2], hist.gyroN, GyroScale)), BiasAdded(1))
          /\ attitudeRaw.gyros[2] =
                RAdd(RNeg(Averaged(hist.gyroSum[1], hist.gyroN, GyroScale)), BiasAdded(2))
    /\ pc = "yaw_bias" =>
          attitudeRaw.gyros[3] =
                RAdd(RNeg(Averaged(hist.gyroSum[3], hist.gyroN, GyroScale)), BiasAdded(3))

\* the second cycle has drained two different entries from each FIFO
C13_Witness ==
    /\ pc = "delay" /\ cycles = 1
    /\ hist.accelN = 2 /\ hist.accelSum = << 6, -4, 4 >>
    /\ hist.gyroN = 2 /\ hist.gyroSum = << 2, 2, 8 >>
    /\ attitudeRaw.accels = << << 3, 2 >>, << -1, 1 >>, << 1, 1 >> >>

\* the negated average of the cycle's gyro z entries times the scale
RawGyroZ == RNeg(Averaged(hist.gyroSum[3], hist.gyroN, GyroScale))

\* C14: the yaw bias update leaves the x and y components of the bias integral
\* as they were and changes the z component by -(gyro_z_raw * yawBiasRate),
\* gyro_z_raw being the negated average of the cycle's gyro z entries times the
\* scale, without the bias integral
C14_YawBiasFromRawGyro ==
    AfterYawBias =>
        /\ hist.biasAfter[1] = hist.biasBefore[1]
        /\ hist.biasAfter[2] = hist.biasBefore[2]
        /\ hist.biasAfter[3] =
              RAdd(hist.biasBefore[3], RNeg(RMul(RawGyroZ, hist.yawBiasRateUsed)))

\* C14, amended: the yaw bias update leaves the x and y components of the bias
\* integral as they were and changes the z component by -(gyro_z * yawBiasRate),
\* gyro_z being the z reading of the cycle's sample: gyro_z_raw plus the z
\* component of the bias integral when bias_correct_gyro was set at the bias block
C14_YawBiasFromSampleGyro ==
    AfterYawBias =>
        /\ hist.biasAfter[1] = hist.biasBefore[1]
        /\ hist.biasAfter[2] = hist.biasBefore[2]
        /\ hist.biasAfter[3] =
              RAdd(hist.biasBefore[3],
                   RNeg(RMul(RAdd(RawGyroZ, hist.biasAdded[3]), hist.yawBiasRateUsed)))

\* a yaw bias update with a non-zero bias integral added to the gyro reading and a
\* non-zero yawBiasRate
C14_Witness ==
    /\ AfterYawBias
    /\ hist.biasAdded[3] # RZero
    /\ hist.yawBiasRateUsed # RZero
    /\ hist.biasAfter[3] # hist.biasBefore[3]

\* C15: the step of updateSensors that reads the BMP085 and finds the conversion
\* pending starts no conversion, leaves the conversion in flight, baro_conversions
\* and the BaroAltitude object as they are, and returns 0; the cycle then ends
\* with the alarm cleared
C15_PendingConversionLeftAlone ==
    [][ /\ (pc = "baro" /\ hist'.baroRead = "pending") =>
              /\ baro_conversions' = baro_conversions
              /\ baroConv' = baroConv
              /\ hist'.baroStarted = hist.baroStarted
              /\ BaroAltitudeObj' = BaroAltitudeObj
              /\ retval' = 0
        /\ (pc = "returned" /\ hist.baroRead = "pending") => alarm' = "OK" ]_vars

\* a cycle after a completed conversion has found the next one pending
C15_Witness ==
    /\ EndOfCycle /\ hist.baroRead = "pending"
    /\ baro_conversions >= 1 /\ retval = 0 /\ alarm = "OK"

\* C16: the magnetometers field of AttitudeRaw at the end of a cycle is the
\* negated fresh reading when the magnetometer had new data in the cycle, and
\* otherwise the field as it was at the end of the previous cycle
C16_StaleMagnetometerKept ==
    EndOfCycle =>
        /\ hist.magRead = "new" =>
              AttitudeRawObj.magnetometers =
                  << -hist.magValues[1], -hist.magValues[2], -hist.magValues[3] >>
        /\ hist.magRead = "stale" => AttitudeRawObj.magnetometers = hist.prevMag

\* a cycle without new magnetometer data, after a cycle that read some
C16_Witness ==
    /\ EndOfCycle /\ cycles >= 1
    /\ hist.magRead = "stale"
    /\ hist.prevMag # << 0, 0, 0 >>
    /\ AttitudeRawObj.magnetometers = hist.prevMag

\* the configured GyroBias divided by 100
ConfiguredBias ==
    << << settings.GyroBias[1], GyroBiasDivisor >>,
       << settings.GyroBias[2], GyroBiasDivisor >>,
       << settings.GyroBias[3], GyroBiasDivisor >> >>

\* a step in which settingsUpdatedCb runs: called by the task before its loop, or
\* for a queued AttitudeSettings event
CallbackStep == (pc = "start" /\ pc' # "start") \/ cbPending' < cbPending

\* C17: a step in which the settings callback runs leaves the three components of
\* the bias integral equal to the configured GyroBias / 100; any other step that
\* changes the bias integral is the yaw bias update of updateSensors and leaves
\* the x and y components as they were
C17_BiasReplacedBySettingsOnly ==
    [][ IF CallbackStep
        THEN \A i \in 1..3 :
                gyro_correct_int'[i][1] * ConfiguredBias[i][2]
                    = ConfiguredBias[i][1] * gyro_correct_int'[i][2]
        ELSE \/ gyro_correct_int' = gyro_correct_int
             \/ /\ pc = "yaw_bias" /\ pc' = "baro"
                /\ gyro_correct_int'[1] = gyro_correct_int[1]
                /\ gyro_correct_int'[2] = gyro_correct_int[2] ]_vars

\* a settings callback has run after the yaw bias update of the current cycle and
\* has replaced the value that update left by the configured non-zero one
C17_Witness ==
    /\ AfterYawBias /\ hist.cbInCycle /\ cbPending = 0 /\ updates = 1
    /\ settings.GyroBias = << 100, -100, 50 >>
    /\ gyro_correct_int = << RInt(1), RInt(-1), << 1, 2 >> >>
    /\ hist.biasAfter # gyro_correct_int

\* the gains of the AttitudeSettings object
CurrentGains ==
    [ accelKp |-> settings.AccelKp, accelKi |-> settings.AccelKi,
      yawBiasRate |-> settings.YawBiasRate ]

C19_OneConversionInFlight ==
    IF pc = "start"
    THEN hist.baroStarted = << >> /\ baroConv = "none"
    ELSE /\ Len(hist.baroStarted) = 1 + hist.baroCompletions
         /\ baroConv = hist.baroStarted[Len(hist.baroStarted)]

\* two reads have found a conversion completed and one has found it pending
C19_Witness ==
    /\ EndOfCycle /\ hist.baroRead = "pending"
    /\ hist.baroCompletions = 2 /\ Len(hist.baroStarted) = 3

====
